---- MODULE Spec2Model ----
(***************************************************************************)
(* A model of the mixcloud3 client binding (src/mixcloud3/__init__.py):    *)
(* the transport wrappers get/post, the pagination engine get_many /       *)
(* get_all and its callers, the lazily loaded fields of Cloudcast and      *)
(* User, the construction of the root client Mixcloud, and upload.         *)
(*                                                                         *)
(* Python values whose type decides what the code does (None, str, list,   *)
(* dict, int) are tagged records [t |-> <type>, v |-> <value>]; objects    *)
(* are records tagged with their class.  A URL is a record too: either the *)
(* parts the code formats it from, or, for a paging cursor, the page it    *)
(* names.  The remote API and the files the program reads are inputs: they *)
(* are drawn from bounded sets in the initial states and in the actions.   *)
(*                                                                         *)
(* The library is exercised by harnesses, one specification each:          *)
(*   SpecTransport   callers of get / post                                 *)
(*   Spec            a consumer of get_all(url)                            *)
(*   SpecCloudcasts  a consumer of Playlist.cloudcasts(limit, offset, all) *)
(*   SpecPlaylists   a consumer of User.playlists()                        *)
(*   SpecUser        reads of User.metadata around a call of playlists()   *)
(*   SpecCloudcast   Cloudcast.from_json and reads of sections/description *)
(*   SpecInit        Mixcloud.__init__ and the netrc file                  *)
(*   SpecUpload      me, Cloudcast.from_yml, upload, upload_yml_file       *)
(***************************************************************************)
EXTENDS Integers, Sequences, FiniteSets, TLC

VARIABLES
    calls,      \* every HTTP request handed to the external client (requests), with the status answered
    exc,        \* the exception that ended the latest operation, or None
    invoked,    \* transport harness: number of calls of the wrappers get / post so far
    last,       \* transport harness: the latest wrapper call: its verb, the response served, its outcome
    pages,      \* remote API: the page envelopes of one collection; page p is what a cursor to p serves
    op,         \* pagination: the generator the consumer drives, with its arguments
    pc,         \* pagination: where the generator is: "new", "iter", "done" (exhausted) or "raised"
    data,       \* pagination: the local `data`, the envelope fetched last
    iter,       \* pagination: the sequence the running for / yield from iterates
    pos,        \* pagination: index in iter of the next item
    out,        \* pagination: what the consumer has received so far, in order
    conn,       \* remote API: the `connections` object of the user's profile
    user,       \* the User instance
    nreads,     \* number of reads of a lazy accessor so far
    detail,     \* remote API: the detail JSON of the cloudcast
    cc,         \* the Cloudcast instance (None before it is built)
    src,        \* what cc was built from: "detail", "summary", "yml"
    rd,         \* the latest read of a lazy accessor: the accessor and how it ended
    netrcFile,  \* the netrc file of the machine
    tokenArg,   \* the access_token argument of the latest Mixcloud(...) call
    client,     \* the Mixcloud instance (None before it is constructed)
    yml,        \* the YAML tracklist document
    upl         \* the latest upload call: its arguments and how it ended

tVars == <<invoked, last>>
pVars == <<pages, op, pc, data, iter, pos, out>>
uVars == <<conn, user>>
cVars == <<detail, cc, src, rd>>
nVars == <<netrcFile, tokenArg>>
yVars == <<yml, upl>>
vars == <<calls, exc, tVars, pVars, uVars, nreads, cVars, nVars, client, yVars>>

-----------------------------------------------------------------------------
(* Bounds of the model.                                                    *)

MaxCalls == 2       \* wrapper calls made by the transport harness
MaxPages == 2       \* pages the remote API serves for one collection
MaxData == 2        \* entries in one page's data list
MaxFetch == 3       \* page requests of one traversal (a cyclic next chain never ends)
UserMaxPages == 1   \* pages of the playlist collection in the user harness
MaxReads == 3       \* reads of lazy accessors on one instance
MaxSections == 2    \* sections of a cloudcast, tracks of a tracklist
MaxTags == 3        \* tags of a tracklist
MaxEntries == 2     \* entries of the netrc file

-----------------------------------------------------------------------------
(* Python values.                                                          *)

None == [t |-> "None"]
PStr(s) == [t |-> "str", v |-> s]
PList(q) == [t |-> "list", v |-> q]
PDict(d) == [t |-> "dict", v |-> d]
PInt(n) == [t |-> "int", v |-> n]

\* bool(x): None, "", [], {} and 0 are false.
Truthy(x) ==
    CASE x.t = "None" -> FALSE
      [] x.t = "str" -> x.v # ""
      [] x.t = "list" -> x.v # <<>>
      [] x.t = "dict" -> DOMAIN x.v # {}
      [] x.t = "int" -> x.v # 0
      [] OTHER -> TRUE

\* How a function call or a statement ends: with a value or with an exception.
Return(x) == [kind |-> "return", value |-> x]
Raise(e) == [kind |-> "raise", exc |-> e]

AttributeError(what) == [type |-> "AttributeError", msg |-> what]
KeyError(what) == [type |-> "KeyError", msg |-> what]
TypeError(what) == [type |-> "TypeError", msg |-> what]

\* x(): only callables can be called; str, list and None are not.
CallValue(x) ==
    IF x.t = "function" THEN Return(x.result)
    ELSE Raise(TypeError(<<x.t, "object is not callable">>))

MapSeq(F(_), q) == [i \in 1..Len(q) |-> F(q[i])]

\* `"k" in d` is "k" \in DOMAIN d; d.get("k"):
DGet(d, k) == IF k \in DOMAIN d THEN d[k] ELSE None

\* str(n) of a natural number: its decimal digits, most significant first.
RECURSIVE Str(_)
Str(n) == IF n < 10 THEN <<n>> ELSE Append(Str(n \div 10), n % 10)

\* int(s) of a digit string.
RECURSIVE ParseInt(_)
ParseInt(s) ==
    IF s = <<>> THEN 0
    ELSE 10 * ParseInt(SubSeq(s, 1, Len(s) - 1)) + s[Len(s)]

\* template.format(*args) of a URL: the template and what fills its places.
UrlFormat(template, args) == [t |-> "url", template |-> template, args |-> args]

\* The URL a paging cursor holds: the remote API's own, naming a page of the collection.
PageUrl(p) == [t |-> "url", template |-> "cursor", args |-> <<p>>]

-----------------------------------------------------------------------------
(* Transport shim: get / post.                                             *)

API_ERROR_MESSAGE == "Mixcloud {} API returned HTTP code {}"

\* API_ERROR_MESSAGE.format(verb, code): the template and what fills its two places.
FormatError(verb, code) == [template |-> API_ERROR_MESSAGE, fills |-> <<verb, Str(code)>>]

APIError(msg) == [type |-> "APIError", msg |-> msg]

\* One request handed to the external HTTP client.
Request(verb, args) == [verb |-> verb, args |-> args]

\* get(*args, **kwargs), given the response requests.get answers with:
\* the requests it sent and how it ends.
get(args, response) ==
    [sent |-> <<Request("GET", args)>>,
     out  |-> IF response.status_code = 200
              THEN Return(response)
              ELSE Raise(APIError(FormatError("GET", response.status_code)))]

\* A post whose error names the wrong verb.
postNamingGet(args, response) ==
    [sent |-> <<Request("POST", args)>>,
     out  |-> IF response.status_code = 200
              THEN Return(response)
              ELSE Raise(APIError(FormatError("GET", response.status_code)))]

\* post(*args, **kwargs), given the response requests.post answers with.
post(args, response) ==
    [sent |-> <<Request("POST", args)>>,
     out  |-> IF response.status_code = 200
              THEN Return(response)
              ELSE Raise(APIError(FormatError("POST", response.status_code)))]

\* The log entries of the requests sent, each with the status answered.
Answered(sent, response) ==
    [i \in 1..Len(sent) |->
        [verb |-> sent[i].verb, args |-> sent[i].args, status |-> response.status_code]]

\* The statuses and response bodies the remote API is taken to answer with.
Statuses == {200, 201, 404, 500}
Bodies == {"body1", "body2"}
Urls == {UrlFormat("{}", <<"https://host/a">>), UrlFormat("{}", <<"https://host/b">>)}
Responses == [status_code : Statuses, json : Bodies]

NoCall == [verb |-> "none"]

-----------------------------------------------------------------------------
(* Entity model: construction from JSON dictionaries (a JSON object is a   *)
(* record).                                                                *)

\* The root client as the entities see it: a back-reference with an api_root.
API_ROOT == "https://api.mixcloud.com"

Mixcloud(api_root, access_token) ==
    [t |-> "Mixcloud", api_root |-> api_root, access_token |-> access_token]

\* A client some entity refers back to.
Client == Mixcloud(API_ROOT, PStr("token"))

\* dateutil.parser.parse(s): the text becomes a datetime value.
ParseTime(s) == [t |-> "datetime", v |-> s.v]

Artist_from_json(d) == [t |-> "Artist", key |-> d.slug, name |-> d.name, m |-> None]

Track_from_json(d) == [t |-> "Track", name |-> d.name, artist |-> Artist_from_json(d.artist)]

Section_from_json(d) ==
    [t |-> "Section", start_time |-> d.start_time, track |-> Track_from_json(d.track)]

Section_list_from_json(d) == MapSeq(Section_from_json, d)

Tag_from_json(d) == [t |-> "Tag", key |-> d.key, url |-> d.url, name |-> d.name]

Tag_list_from_json(d) == MapSeq(Tag_from_json, d)

\* User.from_json(data, m): None unless both keys are there.
User_from_json(d, m) ==
    IF "username" \in DOMAIN d /\ "name" \in DOMAIN d
    THEN [t |-> "User", key |-> d.username, name |-> d.name, m |-> m, _metadata |-> None]
    ELSE None

\* Playlist.from_json(d, m).
Playlist_from_json(d, m) ==
    [t |-> "Playlist",
     key |-> d.key,
     url |-> d.url,
     name |-> d.name,
     owner |-> User_from_json(d.owner, None),
     slug |-> d.slug,
     cloudcast_count |-> IF "cloudcast_count" \in DOMAIN d THEN d.cloudcast_count ELSE PInt(0),
     created_time |-> IF "created_time" \in DOMAIN d THEN ParseTime(d.created_time) ELSE None,
     updated_time |-> IF "updated_time" \in DOMAIN d THEN ParseTime(d.updated_time) ELSE None,
     m |-> m]

\* The fields of the dataclass Cloudcast, in the order of its positional arguments.
CloudcastFields ==
    <<"key", "url", "name", "tags", "created_time", "updated_time", "play_count",
      "favorite_count", "comment_count", "listener_count", "repost_count", "pictures",
      "slug", "user", "hidden_stats", "audio_length", "_description", "_sections", "m">>

\* The default of a field that has one.
CloudcastDefault(f) ==
    CASE f \in {"play_count", "favorite_count", "comment_count", "listener_count",
                "repost_count", "audio_length"} -> PInt(0)
      [] f = "_description" -> PStr("")
      [] OTHER -> None

\* Cloudcast(*args): the arguments fill the fields in order, the rest take their defaults.
CloudcastNew(args) ==
    [f \in {CloudcastFields[i] : i \in 1..Len(CloudcastFields)} \cup {"t"} |->
        IF f = "t" THEN "Cloudcast"
        ELSE LET i == CHOOSE n \in 1..Len(CloudcastFields) : CloudcastFields[n] = f
             IN IF i <= Len(args) THEN args[i] ELSE CloudcastDefault(f)]

\* The keys Cloudcast.from_json subscripts (d["k"]): a KeyError without them.
CloudcastKeys ==
    {"tags", "user", "created_time", "updated_time", "key", "url", "name", "slug", "audio_length"}

\* Cloudcast.from_json(d, m).  d is a tagged value: the method is handed
\* whatever its caller iterates over.
Cloudcast_from_json(d, m) ==
    IF d.t = "str"
    THEN \* `"sections" in d` is a substring test; d.get is no attribute of str
         Raise(AttributeError("'str' object has no attribute 'get'"))
    ELSE LET j == d.v IN
         IF ~(CloudcastKeys \subseteq DOMAIN j)
         THEN Raise(KeyError(CHOOSE k \in CloudcastKeys : k \notin DOMAIN j))
         ELSE Return(CloudcastNew(
            <<j.key,
              j.url,
              j.name,
              PList(Tag_list_from_json(j.tags)),
              ParseTime(j.created_time),
              ParseTime(j.updated_time),
              DGet(j, "play_count"),
              DGet(j, "favorite_count"),
              DGet(j, "comment_count"),
              DGet(j, "listener_count"),
              DGet(j, "repost_count"),
              DGet(j, "pictures"),
              j.slug,
              User_from_json(j.user, None),
              DGet(j, "hidden_stats"),
              j.audio_length,
              DGet(j, "description"),
              IF "sections" \in DOMAIN j THEN PList(Section_list_from_json(j.sections)) ELSE None,
              m>>))

-----------------------------------------------------------------------------
(* The remote API's collections.                                           *)

\* The entry at place i of page p of a cloudcast list (a summary response).
\* All entries of a collection are distinct.
SummaryEntry(p, i) ==
    [key |-> PStr(<<"/u/cloudcast", p, i>>),
     url |-> PStr(<<"https://www.mixcloud.com/u/cloudcast", p, i>>),
     name |-> PStr(<<"Cloudcast", p, i>>),
     tags |-> << [key |-> "/tag/t/", url |-> "https://www.mixcloud.com/tag/t", name |-> "t"] >>,
     user |-> [username |-> "u", name |-> "U"],
     created_time |-> PStr("2020-01-01T00:00:00Z"),
     updated_time |-> PStr("2020-01-02T00:00:00Z"),
     slug |-> PStr(<<"cloudcast", p, i>>),
     audio_length |-> PInt(60)]

\* The entry at place i of page p of a playlist list.
PlaylistEntry(p, i) ==
    [key |-> PStr(<<"/u/playlists/pl", p, i>>),
     url |-> PStr(<<"https://www.mixcloud.com/u/playlists/pl", p, i>>),
     name |-> PStr(<<"Playlist", p, i>>),
     owner |-> [username |-> "u", name |-> "U"],
     slug |-> PStr(<<"pl", p, i>>)]

\* The envelope of page p with n entries; paging is absent (no paging key),
\* last (a paging object without next) or carries the URL of a next page.
Envelope(kind, p, n, paging) ==
    LET d == [i \in 1..n |->
                PDict(IF kind = "playlist" THEN PlaylistEntry(p, i) ELSE SummaryEntry(p, i))]
    IN IF paging.kind = "absent" THEN [data |-> d]
       ELSE IF paging.kind = "last" THEN [data |-> d, paging |-> [previous |-> PageUrl(p)]]
       ELSE [data |-> d, paging |-> [next |-> PageUrl(paging.page)]]

PagingChoices(k) ==
    {[kind |-> "absent"], [kind |-> "last"]} \cup {[kind |-> "next", page |-> q] : q \in 1..k}

\* Every page table the remote API may hold with up to maxPages pages.
PageTables(kind, maxPages) ==
    UNION { { [p \in 1..k |-> Envelope(kind, p, n[p], g[p])] :
                n \in [1..k -> 0..MaxData], g \in [1..k -> PagingChoices(k)] } :
            k \in 1..maxPages }

\* The page the remote API serves at a URL: the one a cursor names, and the
\* first page of the collection at the collection's own URL.
ServerPage(url) == IF url.template = "cursor" THEN url.args[1] ELSE 1

\* What the remote API may answer to a request for a page: the page, or an error.
PageResponses(url) ==
    {[status_code |-> 200, json |-> pages[ServerPage(url)]],
     [status_code |-> 500, json |-> "error"]}

\* Every `connections` object of a profile: with or without a playlists key.
Connections ==
    UNION { [S -> {UrlFormat("{}/{}/{}/", <<API_ROOT, "U", "collection">>)}] :
            S \in SUBSET {"feed", "playlists"} }

\* What the remote API may answer to a request for the profile with metadata.
MetaResponses ==
    {[status_code |-> 200, json |-> [metadata |-> [connections |-> conn]]],
     [status_code |-> 500, json |-> "error"]}

-----------------------------------------------------------------------------
(* Pagination engine (get_many, get_all) and the generators built on it    *)
(* (Playlist.cloudcasts, User.playlists); User.metadata.                   *)

PageLimit == 50

\* get_many(url, limit, offset), given the response the remote API answers with.
get_many(url, limit, offset, response) ==
    LET keys == (IF limit # None THEN {"limit"} ELSE {})
                \cup (IF offset # None THEN {"offset"} ELSE {})
        params == [k \in keys |-> IF k = "limit" THEN limit ELSE offset]
        r == get([url |-> url, params |-> params], response)
    IN [sent |-> r.sent,
        out |-> IF r.out.kind = "return" THEN Return(r.out.value.json) ELSE r.out]

\* A get_all that stops at a page without entries.
HasNextUnlessEmpty(d) == "paging" \in DOMAIN d /\ "next" \in DOMAIN d.paging /\ d.data # <<>>

\* The condition of get_all's while loop.
HasNext(d) == "paging" \in DOMAIN d /\ "next" \in DOMAIN d.paging

\* A yield from that loses the last entry of each page.
YieldFromDropLast(d) == SubSeq(d.data, 1, Len(d.data) - 1)

\* What `yield from data["data"]` iterates.
YieldFrom(d) == d.data

\* What `for cast in data` iterates when data is a dict: its keys.
DictKeys(d) ==
    IF "paging" \in DOMAIN d THEN <<PStr("data"), PStr("paging")>> ELSE <<PStr("data")>>

\* User._get_metadata(), given the response the remote API answers with.
User_get_metadata(u, response) ==
    IF u.m = None
    THEN [sent |-> <<>>,
          out |-> Raise(AttributeError("'NoneType' object has no attribute 'api_root'"))]
    ELSE LET r == get([url |-> UrlFormat("{}/{}/?metadata=1", <<u.m.api_root, u.name>>)],
                      response)
         IN [sent |-> r.sent,
             out |-> IF r.out.kind = "return"
                     THEN Return(PDict(r.out.value.json.metadata.connections))
                     ELSE r.out]

\* The property User.metadata: the requests sent, how the read ends, the instance after it.
User_metadata(u, response) ==
    IF ~Truthy(u._metadata)
    THEN LET g == User_get_metadata(u, response) IN
         [sent |-> g.sent,
          out |-> g.out,
          obj |-> IF g.out.kind = "return" THEN [u EXCEPT !._metadata = g.out.value] ELSE u]
    ELSE [sent |-> <<>>, out |-> Return(u._metadata), obj |-> u]

\* User.playlists reading another key of the metadata.
PlaylistsUrlFromFeed(md) == DGet(md.v, "feed")

\* User.playlists: pl = self.metadata.get("playlists")
PlaylistsUrl(md) == DGet(md.v, "playlists")

\* What the generator hands its consumer for an item of the running iteration.
Produce(o, item) ==
    CASE o.name = "get_all" -> Return(item)
      [] o.name = "cloudcasts" -> Cloudcast_from_json(item, o.m)
      [] o.name = "playlists" -> Return(Playlist_from_json(item.v, None))

\* Whether the call walks all pages through get_all (cloudcasts: `if all`).
Traverses(o) == IF o.name = "cloudcasts" THEN o.all ELSE TRUE

\* The URL the call starts from.
FirstUrl(o) ==
    IF o.name = "cloudcasts"
    THEN UrlFormat("{}{}cloudcasts", <<API_ROOT, o.key>>)
    ELSE o.url

\* The calls the consumer may make: get_all(url),
GetAllOp == [name |-> "get_all", url |-> PageUrl(1)]

\* Playlist.cloudcasts(limit, offset, all) on a playlist with back-reference m,
CloudcastsOps ==
    { [name |-> "cloudcasts", key |-> "/u/playlists/pl/", all |-> a,
       limit |-> lo[1], offset |-> lo[2], m |-> m] :
      a \in BOOLEAN, m \in {None, Client},
      lo \in {<<None, None>>, <<PInt(20), None>>, <<PInt(20), PInt(40)>>} }

\* and User.playlists().
PlaylistsOp == [name |-> "playlists"]

\* The users User.from_json builds, with and without a back-reference.
FreshUsers == {User_from_json([username |-> "u", name |-> "U"], m) : m \in {None, Client}}

\* The first page was asked for (the outcome r of get_many, answered with
\* response): the generator raises, or starts to iterate.
Begin(r, response, sentBefore) ==
    /\ calls' = calls \o sentBefore \o Answered(r.sent, response)
    /\ IF r.out.kind = "raise"
       THEN /\ pc' = "raised"
            /\ exc' = r.out.exc
            /\ UNCHANGED <<data, iter>>
       ELSE /\ pc' = "iter"
            /\ exc' = None
            /\ data' = r.out.value
            /\ iter' = IF Traverses(op) THEN YieldFrom(r.out.value) ELSE DictKeys(r.out.value)

\* The first step of get_all(url) and of Playlist.cloudcasts: get_all's
\* get_many(url, limit=50), or get_many(url, limit=limit, offset=offset).
Start ==
    /\ pc = "new"
    /\ op.name # "playlists"
    /\ \E response \in PageResponses(FirstUrl(op)) :
         Begin(IF Traverses(op)
               THEN get_many(FirstUrl(op), PInt(PageLimit), None, response)
               ELSE get_many(FirstUrl(op), op.limit, op.offset, response),
               response, <<>>)
    /\ UNCHANGED <<pages, op, pos, out, uVars, nreads, tVars, cVars, nVars, client, yVars>>

\* The first step of User.playlists(): the metadata is read, and with a
\* playlists URL in it get_all(pl) starts.
StartPlaylists ==
    /\ pc = "new"
    /\ op.name = "playlists"
    /\ nreads' = nreads + 1
    /\ \E mresponse \in MetaResponses :
         LET md == User_metadata(user, mresponse)
             msent == Answered(md.sent, mresponse)
         IN /\ user' = md.obj
            /\ IF md.out.kind = "raise"
               THEN /\ calls' = calls \o msent
                    /\ pc' = "raised"
                    /\ exc' = md.out.exc
                    /\ UNCHANGED <<data, iter>>
               ELSE LET pl == PlaylistsUrl(md.out.value) IN
                    IF ~Truthy(pl)
                    THEN /\ calls' = calls \o msent
                         /\ pc' = "done"
                         /\ exc' = None
                         /\ UNCHANGED <<data, iter>>
                    ELSE \E response \in PageResponses(pl) :
                            Begin(get_many(pl, PInt(PageLimit), None, response), response, msent)
    /\ UNCHANGED <<pages, op, pos, out, conn, tVars, cVars, nVars, client, yVars>>

\* The consumer takes the next item.
Yield ==
    /\ pc = "iter"
    /\ pos <= Len(iter)
    /\ LET y == Produce(op, iter[pos]) IN
       IF y.kind = "raise"
       THEN /\ pc' = "raised"
            /\ exc' = y.exc
            /\ UNCHANGED <<out, pos>>
       ELSE /\ out' = Append(out, y.value)
            /\ pos' = pos + 1
            /\ UNCHANGED <<pc, exc>>
    /\ UNCHANGED <<calls, pages, op, data, iter, uVars, nreads, tVars, cVars, nVars, client, yVars>>

\* The number of page requests sent so far.
PageRequests == Len(SelectSeq(calls, LAMBDA c : c.args.url.template # "{}/{}/?metadata=1"))

\* get_all's loop: the page is used up and carries next, which is fetched.
FetchNext ==
    /\ pc = "iter"
    /\ pos > Len(iter)
    /\ Traverses(op)
    /\ HasNext(data)
    /\ PageRequests < MaxFetch
    /\ \E response \in PageResponses(data.paging.next) :
         LET r == get_many(data.paging.next, None, None, response) IN
         /\ calls' = calls \o Answered(r.sent, response)
         /\ IF r.out.kind = "raise"
            THEN /\ pc' = "raised"
                 /\ exc' = r.out.exc
                 /\ UNCHANGED <<data, iter, pos>>
            ELSE /\ data' = r.out.value
                 /\ iter' = YieldFrom(r.out.value)
                 /\ pos' = 1
                 /\ UNCHANGED <<pc, exc>>
    /\ UNCHANGED <<pages, op, out, uVars, nreads, tVars, cVars, nVars, client, yVars>>

\* The generator is exhausted: the iteration is used up and nothing follows.
Stop ==
    /\ pc = "iter"
    /\ pos > Len(iter)
    /\ Traverses(op) => ~HasNext(data)
    /\ pc' = "done"
    /\ UNCHANGED <<calls, exc, pages, op, data, iter, pos, out, uVars, nreads,
                   tVars, cVars, nVars, client, yVars>>

\* The property User.metadata is read.
ReadMetadata ==
    /\ user # None
    /\ nreads < MaxReads
    /\ nreads' = nreads + 1
    /\ \E response \in MetaResponses :
         LET md == User_metadata(user, response) IN
         /\ calls' = calls \o Answered(md.sent, response)
         /\ user' = md.obj
         /\ exc' = IF md.out.kind = "raise" THEN md.out.exc ELSE None
    /\ UNCHANGED <<pVars, conn, tVars, cVars, nVars, client, yVars>>

\* The consumer calls user.playlists(): a generator that has not run yet.
CallPlaylists ==
    /\ pc = "off"
    /\ user # None
    /\ op' = PlaylistsOp
    /\ pc' = "new"
    /\ UNCHANGED <<calls, exc, pages, data, iter, pos, out, uVars, nreads,
                   tVars, cVars, nVars, client, yVars>>

-----------------------------------------------------------------------------
(* Cloudcast: the lazily loaded fields sections and description.           *)

\* Section i of a cloudcast as the remote API serves it in a detail response.
SectionJson(i) ==
    [start_time |-> PInt(60 * (i - 1)),
     track |-> [name |-> PStr(<<"track", i>>),
                artist |-> [slug |-> PStr(<<"artist", i>>), name |-> PStr(<<"Artist", i>>)]]]

\* A detail response: the summary of the cloudcast with sections and description.
DetailJson(n, desc) ==
    LET s == SummaryEntry(1, 1) IN
    [k \in DOMAIN s \cup {"sections", "description"} |->
        CASE k = "sections" -> [i \in 1..n |-> SectionJson(i)]
          [] k = "description" -> desc
          [] OTHER -> s[k]]

DetailJsons == {DetailJson(n, desc) : n \in 0..MaxSections, desc \in {PStr(""), PStr("about")}}

\* The summary of the same cloudcast, as a list response carries it.
SummaryOf(d) == [k \in DOMAIN d \ {"sections", "description"} |-> d[k]]

\* What the remote API may answer to a request for the cloudcast's detail.
DetailResponses ==
    {[status_code |-> 200, json |-> detail], [status_code |-> 500, json |-> "error"]}

\* Cloudcast._load(), given the response the remote API answers with: the
\* requests sent, how it ends, the instance after it.
Cloudcast_load(c, response) ==
    IF c.m = None
    THEN [sent |-> <<>>,
          out |-> Raise(AttributeError("'NoneType' object has no attribute 'api_root'")),
          obj |-> c]
    ELSE LET r == get([url |-> UrlFormat("{}{}", <<c.m.api_root, c.key>>)], response) IN
         IF r.out.kind = "raise"
         THEN [sent |-> r.sent, out |-> r.out, obj |-> c]
         ELSE LET d == r.out.value.json IN
              IF "sections" \notin DOMAIN d
              THEN [sent |-> r.sent, out |-> Raise(KeyError("sections")), obj |-> c]
              ELSE LET c1 == [c EXCEPT !._sections = PList(Section_list_from_json(d.sections))]
                   IN IF "description" \notin DOMAIN d
                      THEN [sent |-> r.sent, out |-> Raise(KeyError("description")), obj |-> c1]
                      ELSE [sent |-> r.sent,
                            out |-> Return(None),
                            obj |-> [c1 EXCEPT !._description = d.description]]

\* The property Cloudcast.sections.
Cloudcast_sections(c, response) ==
    IF c._sections = None
    THEN LET l == Cloudcast_load(c, response) IN
         [sent |-> l.sent,
          out |-> IF l.out.kind = "raise" THEN l.out ELSE Return(l.obj._sections),
          obj |-> l.obj]
    ELSE [sent |-> <<>>, out |-> Return(c._sections), obj |-> c]

\* The property Cloudcast.description.
Cloudcast_description(c, response) ==
    IF c._description = None
    THEN LET l == Cloudcast_load(c, response) IN
         [sent |-> l.sent,
          out |-> IF l.out.kind = "raise" THEN l.out ELSE Return(l.obj._description),
          obj |-> l.obj]
    ELSE [sent |-> <<>>, out |-> Return(c._description), obj |-> c]

\* A Cloudcast is built by Cloudcast.from_json(d, m) from a detail response
\* or from the summary of a list response.
FromJson ==
    /\ cc = None
    /\ \E from \in {"detail", "summary"}, m \in {None, Client} :
         LET y == Cloudcast_from_json(
                     PDict(IF from = "detail" THEN detail ELSE SummaryOf(detail)), m)
         IN /\ y.kind = "return"
            /\ cc' = y.value
            /\ src' = from
    /\ UNCHANGED <<calls, exc, detail, rd, nreads, tVars, pVars, uVars, nVars, client, yVars>>

\* cloudcast.sections is read.
ReadSections ==
    /\ cc # None
    /\ nreads < MaxReads
    /\ nreads' = nreads + 1
    /\ \E response \in DetailResponses :
         LET a == Cloudcast_sections(cc, response) IN
         /\ calls' = calls \o Answered(a.sent, response)
         /\ cc' = a.obj
         /\ rd' = [attr |-> "sections", out |-> a.out]
         /\ exc' = IF a.out.kind = "raise" THEN a.out.exc ELSE None
    /\ UNCHANGED <<detail, src, tVars, pVars, uVars, nVars, client, yVars>>

\* cloudcast.description is read.
ReadDescription ==
    /\ cc # None
    /\ nreads < MaxReads
    /\ nreads' = nreads + 1
    /\ \E response \in DetailResponses :
         LET a == Cloudcast_description(cc, response) IN
         /\ calls' = calls \o Answered(a.sent, response)
         /\ cc' = a.obj
         /\ rd' = [attr |-> "description", out |-> a.out]
         /\ exc' = IF a.out.kind = "raise" THEN a.out.exc ELSE None
    /\ UNCHANGED <<detail, src, tVars, pVars, uVars, nVars, client, yVars>>

-----------------------------------------------------------------------------
(* Mixcloud.__init__ and the netrc file.                                   *)

NETRC_MACHINE == "mixcloud-api"

PTuple(q) == [t |-> "tuple", v |-> q]

FileNotFoundError == [type |-> "FileNotFoundError", msg |-> "netrc"]
NetrcParseError == [type |-> "NetrcParseError", msg |-> "netrc"]

\* The netrc files of the machine: none, one that does not parse, or a list
\* of entries (machine <name> or default, with login and password).
NetrcEntries ==
    [machine : {NETRC_MACHINE, "other", "default"}, login : {PStr("login")},
     account : {None}, password : {PStr("secretA"), PStr("secretB")}]

NetrcFiles ==
    {[kind |-> "missing"], [kind |-> "malformed"]}
    \cup {[kind |-> "ok", entries |-> e] :
            e \in UNION {[1..n -> NetrcEntries] : n \in 0..MaxEntries}}

\* netrc.netrc(): the file is opened and parsed when the object is made.
Netrc(file) ==
    CASE file.kind = "missing" -> Raise(FileNotFoundError)
      [] file.kind = "malformed" -> Raise(NetrcParseError)
      [] OTHER ->
           Return([t |-> "netrc",
                   hosts |-> [h \in {file.entries[i].machine : i \in 1..Len(file.entries)} |->
                                LET i == CHOOSE n \in 1..Len(file.entries) :
                                            /\ file.entries[n].machine = h
                                            /\ \A k \in (n + 1)..Len(file.entries) :
                                                  file.entries[k].machine # h
                                    e == file.entries[i]
                                IN PTuple(<<e.login, e.account, e.password>>)]])

\* netrc.authenticators(host): the entry of the host, else the default entry, else None.
Authenticators(n, host) ==
    IF host \in DOMAIN n.hosts THEN n.hosts[host]
    ELSE IF "default" \in DOMAIN n.hosts THEN n.hosts["default"]
    ELSE None

\* x[i] (i counted from 0).
Subscript(x, i) ==
    IF x.t = "None" THEN Raise(TypeError("'NoneType' object is not subscriptable"))
    ELSE Return(x.v[i + 1])

\* Mixcloud(api_root, access_token) with the netrc file as it is: the
\* instance, or the exception that leaves __init__.
Mixcloud_init(api_root, access_token, file) ==
    IF access_token # None
    THEN Return(Mixcloud(api_root, access_token))
    ELSE LET netrc_auth == Netrc(file) IN
         IF netrc_auth.kind = "raise"
         THEN \* try: netrc.netrc()  except FileNotFoundError: pass
              IF netrc_auth.exc.type = "FileNotFoundError"
              THEN Return(Mixcloud(api_root, None))
              ELSE netrc_auth
         ELSE \* else: try: ... except netrc.NetrcParseError: pass
              LET credentials == Authenticators(netrc_auth.value, NETRC_MACHINE)
                  third == Subscript(credentials, 2)
              IN IF Truthy(netrc_auth.value)
                 THEN IF third.kind = "raise"
                      THEN IF third.exc.type = "NetrcParseError"
                           THEN Return(Mixcloud(api_root, None))
                           ELSE third
                      ELSE Return(Mixcloud(api_root, third.value))
                 ELSE Return(Mixcloud(api_root, None))

Unset == [t |-> "unset"]

\* The program constructs Mixcloud(access_token=...).
Construct ==
    /\ tokenArg = Unset
    /\ \E access_token \in {None, PStr("explicit")} :
         LET y == Mixcloud_init(API_ROOT, access_token, netrcFile) IN
         /\ tokenArg' = access_token
         /\ client' = IF y.kind = "return" THEN y.value ELSE None
         /\ exc' = IF y.kind = "raise" THEN y.exc ELSE None
    /\ UNCHANGED <<calls, netrcFile, nreads, tVars, pVars, uVars, cVars, yVars>>

-----------------------------------------------------------------------------
(* The root client: me, upload, upload_yml_file; Cloudcast.from_yml.       *)

\* slugify(s): another string made from s.
Slugify(s) == PStr(<<"slugify", s.v>>)

\* Artist.from_yml(artist)
Artist_from_yml(artist) == [t |-> "Artist", key |-> Slugify(artist), name |-> artist, m |-> None]

\* Section.from_yml(d)
Section_from_yml(d) ==
    [t |-> "Section",
     start_time |-> d.start,
     track |-> [t |-> "Track", name |-> d.track, artist |-> Artist_from_yml(d.artist)]]

\* Cloudcast.from_yml(f, user), given the document yaml.load reads from f.
Cloudcast_from_yml(d, u) ==
    LET name == d.title
        sections == PList(MapSeq(Section_from_yml, d.tracks))
        key == Slugify(name)
        tags == PList(d.tags)
        description == d.desc
        created_time == None
    IN CloudcastNew(<<key, name, sections, tags, description, u, created_time>>)

\* The tracklist documents: a title, n tracks, k tags and a description.
YmlDocs ==
    {[title |-> PStr("Mix"),
      tracks |-> [i \in 1..n |->
                    [artist |-> PStr(<<"Artist", i>>), track |-> PStr(<<"track", i>>),
                     start |-> PInt(60 * (i - 1))]],
      tags |-> [j \in 1..k |-> PStr(<<"tag", j>>)],
      desc |-> desc] :
     n \in 0..MaxSections, k \in 0..MaxTags, desc \in {PStr(""), PStr("about")}}

\* What the remote API may answer to GET /me/ and to the upload.
MeResponses ==
    {[status_code |-> 200, json |-> [username |-> "me", name |-> "Me"]],
     [status_code |-> 401, json |-> "error"]}

PostResponses ==
    {[status_code |-> 200, json |-> "uploaded"], [status_code |-> 500, json |-> "error"]}

\* Mixcloud.me(), given the response the remote API answers with.
Mixcloud_me(c, response) ==
    LET r == get([url |-> UrlFormat("{}/me/", <<c.api_root>>),
                  params |-> [access_token |-> c.access_token]], response)
    IN [log |-> Answered(r.sent, response),
        out |-> IF r.out.kind = "return"
                THEN Return(User_from_json(r.out.value.json, c))
                ELSE r.out]

\* The payload entries of the sections: three per section, numbered from 0.
SectionFields(secs) ==
    [k \in 1..(3 * Len(secs)) |->
        LET i == ((k - 1) \div 3) + 1
            j == (k - 1) % 3
        IN CASE j = 0 -> [field |-> <<"sections", i - 1, "artist">>,
                          value |-> secs[i].track.artist.name]
             [] j = 1 -> [field |-> <<"sections", i - 1, "song">>, value |-> secs[i].track.name]
             [] OTHER -> [field |-> <<"sections", i - 1, "start_time">>,
                          value |-> secs[i].start_time]]

\* The payload entries of the tags, numbered from 0.
TagFields(tags) == [k \in 1..Len(tags) |-> [field |-> <<"tags", k - 1, "tag">>, value |-> tags[k]]]

\* upload, from `files = {"mp3": mp3file}` on: the files, and the one post.
UploadPost(c, payload, mp3file, picturefile, sofar, obj, r3) ==
    LET files == IF picturefile # None
                 THEN [mp3 |-> mp3file, picture |-> picturefile]
                 ELSE [mp3 |-> mp3file]
        p == post([url |-> UrlFormat("{}/upload/", <<c.api_root>>),
                   data |-> payload,
                   params |-> [access_token |-> c.access_token],
                   files |-> files], r3)
    IN [log |-> sofar \o Answered(p.sent, r3), out |-> p.out, obj |-> obj]

\* upload, from the loop over cloudcast.sections() on (head is the payload
\* built so far, s the read of the property sections).
UploadSections(c, head, s, mp3file, picturefile, sofar, r3) ==
    IF s.out.kind = "raise" THEN [log |-> sofar, out |-> s.out, obj |-> s.obj]
    ELSE IF CallValue(s.out.value).kind = "raise"
    THEN [log |-> sofar, out |-> CallValue(s.out.value), obj |-> s.obj]
    ELSE IF CallValue(s.out.value).value.t # "list" \/ s.obj.tags.t # "list"
    THEN [log |-> sofar, out |-> Raise(TypeError("object is not iterable")), obj |-> s.obj]
    ELSE UploadPost(c,
                    head \o SectionFields(CallValue(s.out.value).value.v)
                         \o TagFields(s.obj.tags.v),
                    mp3file, picturefile, sofar, s.obj, r3)

\* upload, from the call cloudcast.description() on (d is the read of the
\* property description: its value is then called).
UploadDescription(c, d, mp3file, picturefile, sofar, r2, r3) ==
    IF d.out.kind = "raise" THEN [log |-> sofar, out |-> d.out, obj |-> d.obj]
    ELSE IF CallValue(d.out.value).kind = "raise"
    THEN [log |-> sofar, out |-> CallValue(d.out.value), obj |-> d.obj]
    ELSE UploadSections(c,
                        << [field |-> <<"name">>, value |-> d.obj.name],
                           [field |-> <<"percentage_music">>, value |-> PInt(100)],
                           [field |-> <<"description">>, value |-> CallValue(d.out.value).value] >>,
                        Cloudcast_sections(d.obj, r2),
                        mp3file, picturefile,
                        sofar \o Answered(Cloudcast_sections(d.obj, r2).sent, r2), r3)

\* Mixcloud.upload(cloudcast, mp3file, picturefile), given the responses the
\* remote API answers with to a detail request made for the description,
\* one for the sections, and the upload: the requests as answered, how the
\* call ends, the cloudcast after it.
Mixcloud_upload(c, cloudcast, mp3file, picturefile, r1, r2, r3) ==
    UploadDescription(c, Cloudcast_description(cloudcast, r1), mp3file, picturefile,
                      Answered(Cloudcast_description(cloudcast, r1).sent, r1), r2, r3)

Mp3File == PStr("mix.mp3")

\* client.me(), unless an earlier call has failed.
Me ==
    /\ client # None
    /\ user = None
    /\ upl = None
    /\ exc = None
    /\ \E response \in MeResponses :
         LET r == Mixcloud_me(client, response) IN
         /\ calls' = calls \o r.log
         /\ user' = IF r.out.kind = "return" THEN r.out.value ELSE None
         /\ exc' = IF r.out.kind = "raise" THEN r.out.exc ELSE None
    /\ UNCHANGED <<conn, nreads, tVars, pVars, cVars, nVars, client, yVars>>

\* Cloudcast.from_yml(f, user) on the tracklist document.
FromYml ==
    /\ user # None
    /\ cc = None
    /\ cc' = Cloudcast_from_yml(yml, user)
    /\ src' = "yml"
    /\ UNCHANGED <<calls, exc, detail, rd, nreads, tVars, pVars, uVars, nVars, client, yVars>>

\* client.upload(cloudcast, mp3file, picturefile)
Upload ==
    /\ client # None
    /\ cc # None
    /\ upl = None
    /\ \E picturefile \in {None, PStr("cover.jpg")},
          r1 \in DetailResponses, r2 \in DetailResponses, r3 \in PostResponses :
         LET u == Mixcloud_upload(client, cc, Mp3File, picturefile, r1, r2, r3) IN
         /\ calls' = calls \o u.log
         /\ cc' = u.obj
         /\ upl' = [via |-> "upload", reached |-> TRUE, cloudcast |-> cc,
                    picturefile |-> picturefile, out |-> u.out]
         /\ exc' = IF u.out.kind = "raise" THEN u.out.exc ELSE None
    /\ UNCHANGED <<detail, src, rd, yml, nreads, tVars, pVars, uVars, nVars, client>>

\* client.upload_yml_file(ymlfile, mp3file): me(), Cloudcast.from_yml, upload.
UploadYmlFile ==
    /\ client # None
    /\ user = None
    /\ cc = None
    /\ upl = None
    /\ \E mr \in MeResponses,
          r1 \in DetailResponses, r2 \in DetailResponses, r3 \in PostResponses :
         LET me == Mixcloud_me(client, mr) IN
         IF me.out.kind = "raise"
         THEN /\ calls' = calls \o me.log
              /\ exc' = me.out.exc
              /\ upl' = [via |-> "upload_yml_file", reached |-> FALSE, cloudcast |-> None,
                         picturefile |-> None, out |-> me.out]
              /\ UNCHANGED <<user, cc, src>>
         ELSE LET cloudcast == Cloudcast_from_yml(yml, me.out.value)
                  u == Mixcloud_upload(client, cloudcast, Mp3File, None, r1, r2, r3)
              IN /\ calls' = calls \o me.log \o u.log
                 /\ user' = me.out.value
                 /\ cc' = u.obj
                 /\ src' = "yml"
                 /\ upl' = [via |-> "upload_yml_file", reached |-> TRUE,
                            cloudcast |-> cloudcast, picturefile |-> None, out |-> u.out]
                 /\ exc' = IF u.out.kind = "raise" THEN u.out.exc ELSE None
    /\ UNCHANGED <<conn, detail, rd, yml, nreads, tVars, pVars, nVars, client>>

-----------------------------------------------------------------------------
(* The transport harness.                                                  *)

\* A caller invokes get(url).
CallGet ==
    /\ invoked < MaxCalls
    /\ \E url \in Urls, response \in Responses :
         LET r == get(url, response) IN
         /\ calls' = calls \o Answered(r.sent, response)
         /\ last' = [verb |-> "GET", args |-> url, response |-> response, out |-> r.out]
    /\ invoked' = invoked + 1
    /\ UNCHANGED <<exc, pVars, uVars, nreads, cVars, nVars, client, yVars>>

\* A caller invokes post(url).
CallPost ==
    /\ invoked < MaxCalls
    /\ \E url \in Urls, response \in Responses :
         LET r == post(url, response) IN
         /\ calls' = calls \o Answered(r.sent, response)
         /\ last' = [verb |-> "POST", args |-> url, response |-> response, out |-> r.out]
    /\ invoked' = invoked + 1
    /\ UNCHANGED <<exc, pVars, uVars, nreads, cVars, nVars, client, yVars>>

-----------------------------------------------------------------------------
(* Properties of the transport shim.                                       *)

\* C4: get and post each hand exactly one request to the HTTP client; on
\* status 200 they return the response unchanged, on any other status they
\* raise an APIError whose message carries the verb of the wrapper and the
\* status code, and return no response.
C4_OneCallThenReturnOrAPIError ==
    /\ Len(calls) = invoked
    /\ last # NoCall =>
         /\ calls[Len(calls)] =
               [verb |-> last.verb, args |-> last.args, status |-> last.response.status_code]
         /\ IF last.response.status_code = 200
            THEN last.out = Return(last.response)
            ELSE /\ last.out.kind = "raise"
                 /\ "value" \notin DOMAIN last.out
                 /\ last.out.exc.type = "APIError"
                 /\ last.out.exc.msg.template = API_ERROR_MESSAGE
                 /\ last.out.exc.msg.fills[1] = last.verb
                 /\ ParseInt(last.out.exc.msg.fills[2]) = last.response.status_code

\* A post was answered with a status other than 200, after an earlier call.
C4_Witness ==
    /\ invoked = 2
    /\ last.verb = "POST"
    /\ last.response.status_code = 404
    /\ last.out.kind = "raise"

-----------------------------------------------------------------------------
(* Properties of the pagination engine and its callers.                    *)

\* The page carries a next cursor (read off the envelope, not off the code).
CarriesNext(d) == "paging" \in DOMAIN d /\ "next" \in DOMAIN d.paging

\* The remote API serves a finite chain: page p points to page p + 1, the last to nothing.
IsChain(tbl) ==
    \A p \in 1..Len(tbl) :
        IF p < Len(tbl) THEN CarriesNext(tbl[p]) /\ tbl[p].paging.next = PageUrl(p + 1)
        ELSE ~CarriesNext(tbl[p])

\* data(p1) ++ ... ++ data(pn)
RECURSIVE Flatten(_, _)
Flatten(tbl, n) == IF n = 0 THEN <<>> ELSE Flatten(tbl, n - 1) \o tbl[n].data

IsPrefix(a, b) == Len(a) <= Len(b) /\ a = SubSeq(b, 1, Len(a))

IsMetadataCall(c) == c.args.url.template = "{}/{}/?metadata=1"

\* The entries of the pages the first n requests fetched, in the order fetched.
RECURSIVE FetchedData(_)
FetchedData(n) ==
    IF n = 0 THEN <<>>
    ELSE FetchedData(n - 1) \o
         (IF calls[n].status = 200 /\ ~IsMetadataCall(calls[n])
          THEN pages[ServerPage(calls[n].args.url)].data
          ELSE <<>>)

HttpFailed == IF exc = None THEN FALSE ELSE exc.type = "APIError"

\* C1: over a finite chain of pages p1..pk, get_all(url) yields exactly
\* data(p1) ++ ... ++ data(pk) (at every moment a prefix of it, all of it once
\* exhausted), its i-th request is a GET for page i, so that each page is
\* requested once, and nothing but an HTTP error ends it early.
C1_GetAllYieldsConcatenation ==
    (op.name = "get_all" /\ IsChain(pages)) =>
        /\ IsPrefix(out, Flatten(pages, Len(pages)))
        /\ Len(calls) <= Len(pages)
        /\ \A i \in 1..Len(calls) :
              calls[i].verb = "GET" /\ ServerPage(calls[i].args.url) = i
        /\ pc = "done" => (out = Flatten(pages, Len(pages)) /\ Len(calls) = Len(pages))
        /\ pc = "raised" => HttpFailed

C1_Witness ==
    /\ op.name = "get_all"
    /\ IsChain(pages)
    /\ Len(pages) >= 2
    /\ pc = "done"
    /\ Len(out) >= 3

\* C3: get_all's traversal ends only when the page fetched last lacks a next
\* cursor, and then it does end; a used-up page that carries next (also one
\* with an empty data list) is followed by a request for that next URL, whose
\* page is iterated next; and when every page carries next the traversal
\* never ends.
C3_EndsOnlyWithoutNext ==
    /\ [](op.name = "get_all" /\ pc = "done" => ~CarriesNext(data))
    /\ []((op.name = "get_all" /\ \A p \in 1..Len(pages) : CarriesNext(pages[p])) => pc # "done")
    /\ [][(op.name = "get_all" /\ pc = "iter" /\ pos > Len(iter)) =>
            IF CarriesNext(data)
            THEN /\ pc' # "done"
                 /\ Len(calls') = Len(calls) + 1
                 /\ calls'[Len(calls')].args.url = data.paging.next
                 /\ pc' = "iter" => (data' = pages[ServerPage(data.paging.next)] /\ out' = out)
            ELSE pc' = "done" /\ out' = out /\ calls' = calls]_vars

\* An empty first page carried next, and the entries of the page after it were yielded.
C3_Witness ==
    /\ op.name = "get_all"
    /\ pages[1].data = <<>>
    /\ CarriesNext(pages[1])
    /\ Len(calls) >= 2
    /\ Len(out) >= 1
    /\ pc = "done"

\* C9: a call of Playlist.cloudcasts that the remote API answers (no HTTP
\* error) ends normally and has yielded one Cloudcast per entry of the data
\* lists of the pages it fetched, in order, with all=True and with all=False.
C9_CloudcastsYieldsPageEntries ==
    (op.name = "cloudcasts" /\ pc \in {"done", "raised"} /\ ~HttpFailed) =>
        /\ pc = "done"
        /\ Len(out) = Len(FetchedData(Len(calls)))
        /\ \A i \in 1..Len(out) :
              out[i].t = "Cloudcast" /\ out[i].key = FetchedData(Len(calls))[i].v.key

\* C8: without a playlists key in the user's connections, User.playlists()
\* yields nothing and sends no request for a playlist list (at most the one
\* for the metadata); with the key, what it has yielded is, in order, one
\* Playlist per entry of the pages get_all fetched from that URL, all of
\* them once it is exhausted.
C8_PlaylistsFollowsMetadataKey ==
    op.name = "playlists" =>
        IF "playlists" \notin DOMAIN conn
        THEN /\ out = <<>>
             /\ \A i \in 1..Len(calls) : IsMetadataCall(calls[i])
             /\ pc \in {"new", "done", "raised"}
        ELSE /\ Len(out) <= Len(FetchedData(Len(calls)))
             /\ \A i \in 1..Len(out) :
                   out[i].t = "Playlist" /\ out[i].key = FetchedData(Len(calls))[i].v.key
             /\ pc = "done" =>
                   /\ Len(out) = Len(FetchedData(Len(calls)))
                   /\ \E i \in 1..Len(calls) : ~IsMetadataCall(calls[i])

\* The user's connections hold other keys but not playlists: the metadata
\* was fetched and the generator ended without a playlist.
C8_Witness ==
    /\ op.name = "playlists"
    /\ DOMAIN conn = {"feed"}
    /\ pc = "done"
    /\ Len(calls) = 1
    /\ calls[1].status = 200

\* C6: the metadata GET of a User instance is answered at most once, whatever
\* connections object the remote API returns: every read after the first
\* fetch returns the memoized value.
C6_MetadataFetchedOnce ==
    Cardinality({i \in 1..Len(calls) : IsMetadataCall(calls[i]) /\ calls[i].status = 200}) <= 1

-----------------------------------------------------------------------------
(* Properties of the lazily loaded fields, the root client and upload.     *)

AllAnswered200 == \A i \in 1..Len(calls) : calls[i].status = 200

\* C2: a Cloudcast built by from_json from a detail response never causes a
\* request when sections or description are read; one built from a summary
\* has, once either accessor was read and the remote API answered, sent
\* exactly one GET, for its detail URL, and holds both fields.
C2_LazyFieldsLoadOnce ==
    cc # None =>
        /\ src = "detail" => Len(calls) = 0
        /\ (src = "summary" /\ nreads >= 1 /\ AllAnswered200) =>
              /\ Len(calls) = 1
              /\ calls[1].verb = "GET"
              /\ calls[1].args.url.template = "{}{}"
              /\ cc._sections # None
              /\ cc._description # None

\* The third field of the entry the netrc file holds for the machine, if any.
ExpectedToken(file) ==
    IF file.kind = "ok" /\ \E i \in 1..Len(file.entries) : file.entries[i].machine = NETRC_MACHINE
    THEN LET i == CHOOSE n \in 1..Len(file.entries) :
                     /\ file.entries[n].machine = NETRC_MACHINE
                     /\ \A k \in (n + 1)..Len(file.entries) :
                           file.entries[k].machine # NETRC_MACHINE
         IN file.entries[i].password
    ELSE None

\* C7: Mixcloud() without an explicit access token never raises because of
\* the netrc file: with the file missing, malformed or without an entry for
\* mixcloud-api the instance is built with access_token None, and with a
\* matching entry access_token is the entry's third field.
C7_ConstructionNeverRaises ==
    (tokenArg = None /\ netrcFile # None) =>
        /\ exc = None
        /\ client # None
        /\ client.access_token = ExpectedToken(netrcFile)

\* The names of the form fields upload is to send for s sections and k tags.
ExpectedFields(s, k) ==
    <<<<"name">>, <<"percentage_music">>, <<"description">>>>
    \o [n \in 1..(3 * s) |->
          <<"sections", (n - 1) \div 3,
            CASE (n - 1) % 3 = 0 -> "artist" [] (n - 1) % 3 = 1 -> "song" [] OTHER -> "start_time">>]
    \o [n \in 1..k |-> <<"tags", n - 1, "tag">>]

\* The numbers of sections and tags of the cloudcast handed to upload.
SectionsOf(c) ==
    IF src = "yml" THEN Len(yml.tracks)
    ELSE IF c._sections = None THEN Len(detail.sections) ELSE Len(c._sections.v)

TagsOf(c) == IF src = "yml" THEN Len(yml.tags) ELSE Len(c.tags.v)

PostCalls == SelectSeq(calls, LAMBDA c : c.verb = "POST")

\* C5: a call of upload that the remote API answers ends with exactly one
\* POST, to {api_root}/upload/, whose form fields are name, percentage_music,
\* description, three per section and one per tag, numbered from 0 in order,
\* with the audio file under mp3 and a picture field iff a picture was given.
C5_UploadPostsOnce ==
    (upl # None /\ AllAnswered200) =>
        (upl.reached =>
            /\ upl.out.kind = "return"
            /\ Len(PostCalls) = 1
            /\ PostCalls[1].args.url = UrlFormat("{}/upload/", <<client.api_root>>)
            /\ [i \in 1..Len(PostCalls[1].args.data) |-> PostCalls[1].args.data[i].field]
                  = ExpectedFields(SectionsOf(upl.cloudcast), TagsOf(upl.cloudcast))
            /\ PostCalls[1].args.data[2].value = PInt(100)
            /\ PostCalls[1].args.files.mp3 = Mp3File
            /\ ("picture" \in DOMAIN PostCalls[1].args.files) <=> (upl.picturefile # None))

SameValue(a, b) == a.t = b.t /\ a.v = b.v

\* C10: the Cloudcast that from_yml builds has name = title, description =
\* desc, tags = tags, user = the given user and one Section per track, in
\* order, with the track's start, name and artist.
C10_FromYmlFields ==
    (src = "yml" /\ cc # None) =>
        /\ SameValue(cc.name, yml.title)
        /\ SameValue(cc._description, yml.desc)
        /\ SameValue(cc.tags, PList(yml.tags))
        /\ cc.user = user
        /\ cc._sections.t = "list"
        /\ Len(cc._sections.v) = Len(yml.tracks)
        /\ \A i \in 1..Len(yml.tracks) :
              /\ cc._sections.v[i].start_time = yml.tracks[i].start
              /\ cc._sections.v[i].track.name = yml.tracks[i].track
              /\ cc._sections.v[i].track.artist.name = yml.tracks[i].artist

-----------------------------------------------------------------------------
(* Specifications.                                                         *)

IdleTransport == invoked = 0 /\ last = NoCall
IdlePaging ==
    pages = <<>> /\ op = None /\ pc = "off" /\ data = None /\ iter = <<>> /\ pos = 1 /\ out = <<>>
IdleUser == conn = None /\ user = None
IdleCloudcast == detail = None /\ cc = None /\ src = "none" /\ rd = None
IdleInit == netrcFile = None /\ tokenArg = None
IdleUpload == yml = None /\ upl = None

InitTransport ==
    /\ calls = <<>>
    /\ exc = None
    /\ nreads = 0
    /\ client = None
    /\ IdleTransport /\ IdlePaging /\ IdleUser /\ IdleCloudcast /\ IdleInit /\ IdleUpload

NextTransport == CallGet \/ CallPost

SpecTransport == InitTransport /\ [][NextTransport]_vars

\* The generator state before the consumer has taken anything.
NotStarted ==
    /\ calls = <<>>
    /\ exc = None
    /\ nreads = 0
    /\ client = None
    /\ IdleTransport /\ IdleCloudcast /\ IdleInit /\ IdleUpload
    /\ pc = "new"
    /\ data = None
    /\ iter = <<>>
    /\ pos = 1
    /\ out = <<>>

\* A consumer is about to drive get_all(url) over some collection.
InitGetAll ==
    /\ NotStarted
    /\ IdleUser
    /\ op = GetAllOp
    /\ pages \in PageTables("cloudcast", MaxPages)

NextGetAll == Start \/ Yield \/ FetchNext \/ Stop

Spec == InitGetAll /\ [][NextGetAll]_vars

\* A consumer is about to drive playlist.cloudcasts(...) over the playlist's cloudcasts.
InitCloudcasts ==
    /\ NotStarted
    /\ IdleUser
    /\ op \in CloudcastsOps
    /\ pages \in PageTables("cloudcast", MaxPages)

NextCloudcasts == Start \/ Yield \/ FetchNext \/ Stop

SpecCloudcasts == InitCloudcasts /\ [][NextCloudcasts]_vars

\* A consumer is about to drive user.playlists() on a fresh User.
InitPlaylists ==
    /\ NotStarted
    /\ op = PlaylistsOp
    /\ pages \in PageTables("playlist", MaxPages)
    /\ user \in FreshUsers
    /\ conn \in Connections

NextPlaylists == StartPlaylists \/ Yield \/ FetchNext \/ Stop

SpecPlaylists == InitPlaylists /\ [][NextPlaylists]_vars

\* A User instance fresh from User.from_json.
InitUser ==
    /\ calls = <<>>
    /\ exc = None
    /\ nreads = 0
    /\ client = None
    /\ IdleTransport /\ IdleCloudcast /\ IdleInit /\ IdleUpload
    /\ user \in FreshUsers
    /\ conn \in Connections
    /\ pages \in PageTables("playlist", UserMaxPages)
    /\ op = None
    /\ pc = "off"
    /\ data = None
    /\ iter = <<>>
    /\ pos = 1
    /\ out = <<>>

NextUser == ReadMetadata \/ CallPlaylists \/ StartPlaylists \/ Yield \/ FetchNext \/ Stop

SpecUser == InitUser /\ [][NextUser]_vars

\* A cloudcast of the remote API, not yet known to the program.
InitCloudcast ==
    /\ calls = <<>>
    /\ exc = None
    /\ nreads = 0
    /\ client = None
    /\ IdleTransport /\ IdlePaging /\ IdleUser /\ IdleInit /\ IdleUpload
    /\ detail \in DetailJsons
    /\ cc = None
    /\ src = "none"
    /\ rd = None

NextCloudcast == FromJson \/ ReadSections \/ ReadDescription

SpecCloudcast == InitCloudcast /\ [][NextCloudcast]_vars

\* A machine with some netrc file, before the program constructs its client.
InitInit ==
    /\ calls = <<>>
    /\ exc = None
    /\ nreads = 0
    /\ client = None
    /\ IdleTransport /\ IdlePaging /\ IdleUser /\ IdleCloudcast /\ IdleUpload
    /\ netrcFile \in NetrcFiles
    /\ tokenArg = Unset

NextInit == Construct

SpecInit == InitInit /\ [][NextInit]_vars

\* A constructed client, a tracklist document and a cloudcast of the remote API.
InitUpload ==
    /\ calls = <<>>
    /\ exc = None
    /\ nreads = 0
    /\ IdleTransport /\ IdlePaging /\ IdleUser /\ IdleInit
    /\ client \in {Mixcloud(API_ROOT, None), Mixcloud(API_ROOT, PStr("token"))}
    /\ yml \in YmlDocs
    /\ detail \in DetailJsons
    /\ cc = None
    /\ src = "none"
    /\ rd = None
    /\ upl = None

NextUpload == Me \/ FromYml \/ FromJson \/ Upload \/ UploadYmlFile

SpecUpload == InitUpload /\ [][NextUpload]_vars

====
